---------------------------- MODULE Spec2Model ----------------------------
(***************************************************************************)
(* A model of packages/backend-common/src/reading/AzureUrlReader.ts: the   *)
(* factory and constructor, read, readTree, buildRawUrl, getDownloadUrl    *)
(* and getRequestOptions.                                                  *)
(*                                                                         *)
(* Strings that the code takes apart are sequences of characters; a        *)
(* character is a one-character string, and a percent escape of a query    *)
(* string ("%26") is one element.  A URL is a record of the fields the     *)
(* code reads from it.  A call is a small state machine: the synchronous   *)
(* part up to the fetch, then the fetch resolving or rejecting, then (for  *)
(* read) the body being consumed.                                          *)
(***************************************************************************)
EXTENDS Integers, Sequences, FiniteSets, TLC

VARIABLES
    configs,      \* factory: the list readAzureIntegrationConfigs returned
    pairs,        \* factory: the {reader, predicate} list it returned
    factoryState, \* factory: "idle" | "returned" | "threw"
    probe,        \* factory: the last predicate(url) evaluation
    reader,       \* call: this.options of the reader the call is made on
    op,           \* call: "read" | "readTree" | "none"
    url,          \* call: the url argument
    treeOptions,  \* call: readTree's options argument
    pc,           \* call: "called" | "awaiting" | "body" | "done" | "idle"
    builtUrl,     \* call: the URL derived from url
    requests,     \* call: the fetch calls issued so far
    response,     \* call: what fetch resolved or rejected with
    outcome,      \* call: what the promise settled with
    delivered     \* call: how many times the promise settled

vars == <<configs, pairs, factoryState, probe, reader, op, url, treeOptions,
          pc, builtUrl, requests, response, outcome, delivered>>

factoryVars == <<configs, pairs, factoryState, probe>>
callVars == <<reader, op, url, treeOptions, pc, builtUrl, requests,
              response, outcome, delivered>>

---------------------------------------------------------------------------
\* Bounds of the model.

MaxPathLen == 3
MaxRefLen == 1
MaxBodyLen == 2
MaxConfigs == 2

---------------------------------------------------------------------------
\* Sequences.

SeqsUpTo(S, n) == UNION {[1..k -> S] : k \in 0..n}

Range(s) == {s[i] : i \in 1..Len(s)}

RECURSIVE Join(_, _)
\* Array.prototype.join: the elements with sep between them.
Join(parts, sep) ==
    IF parts = <<>> THEN <<>>
    ELSE IF Len(parts) = 1 THEN parts[1]
    ELSE parts[1] \o sep \o Join(Tail(parts), sep)

---------------------------------------------------------------------------
\* Values of the environment.

AZURE_HOST == "dev.azure.com"

Hosts == {AZURE_HOST, "evil.example"}

Protocols == {"https", "http"}

\* What a destructuring yields for a position past the end of the array.
Undefined == "undefined"

\* The characters of a raw query value: plain ones and the escape of "&".
RawChars == {"d", "/", "%26"}

\* The characters of a version parameter: the GB prefix and a ref name.
RefChars == {"m"}

\* A query parameter of the source URL: absent, or present with a raw value.
NoParam == [present |-> FALSE, raw |-> <<>>]

Param(raw) == [present |-> TRUE, raw |-> raw]

PathParams == {NoParam} \cup {Param(r) : r \in SeqsUpTo(RawChars, MaxPathLen)}

VersionParams ==
    {NoParam, Param(<<>>), Param(<<"G">>), Param(<<"G", "B">>)}
    \cup {Param(<<"G", "B">> \o r) : r \in SeqsUpTo(RefChars, MaxRefLen) \ {<<>>}}

\* url.pathname.split('/') of the source URLs: the pathname of an http(s)
\* URL starts with "/", so the first element is always "".
Splits ==
    { <<"", "o", "p", "_git", "r">>,
      <<"", "o", "p", "_git", "r", "x">>,
      <<"", "o", "p", "_git">>,
      <<"", "o", "p", "_git", "">>,
      <<"", "", "p", "_git", "r">>,
      <<"", "o", "", "_git", "r">>,
      <<"", "o", "p", "blob", "r">>,
      <<"", "o", "p">>,
      <<"", "">> }

\* A source URL: protocol://host/pathname?path=..&version=..[&_a=contents]
SourceUrls ==
    [protocol : Protocols, host : Hosts, split : Splits,
     path : PathParams, version : VersionParams, extra : BOOLEAN]

\* A string that `new URL` rejects, such as "com/a/b".
NotAUrl ==
    [protocol |-> "", host |-> "", split |-> <<>>,
     path |-> NoParam, version |-> NoParam, extra |-> FALSE]

\* A derived URL, before any is derived.
NoUrl == [protocol |-> "", host |-> "", split |-> <<>>, search |-> <<>>]


\* What the reader is asked to read: any of the URLs above, or no URL at all.
ReadUrls == SourceUrls \cup {NotAUrl}

\* readTree is modelled on the URLs of the repository grammar
\* /{org}/{project}/{keyword}/{repo} whose path parameter, if any, is a
\* relative path: what the git-url-parse package reports for other shapes
\* is not decided by this file.
TreeUrls ==
    {u \in SourceUrls :
        /\ Len(u.split) = 5
        /\ \A i \in 2..5 : u.split[i] # ""
        /\ u.path.raw = <<>> \/ u.path.raw[1] # "/"}

Tokens == {"", "pat"}

ConfigHosts == Hosts \cup {"DEV.AZURE.COM"}

\* An AzureIntegrationConfig.
ConfigEntries == [host : ConfigHosts, token : Tokens]

\* The URLs the framework asks a predicate about: URL.host holds the port,
\* URL.hostname does not.
ProbeUrls ==
    { [host |-> "dev.azure.com", hostname |-> "dev.azure.com"],
      [host |-> "dev.azure.com:8443", hostname |-> "dev.azure.com"],
      [host |-> "evil.example", hostname |-> "evil.example"] }

Statuses == {200, 203, 204, 404, 500}

\* Response.statusText: the reason phrase the server sent with the status.
StatusText(status) ==
    CASE status = 200 -> "OK"
      [] status = 203 -> "Non-Authoritative Information"
      [] status = 204 -> "No Content"
      [] status = 404 -> "Not Found"
      [] OTHER -> "Internal Server Error"

\* The bytes of a response body: an ASCII letter, the lead byte and the
\* continuation byte of a two-byte UTF-8 sequence.
Bytes == {65, 195, 169}

Bodies == SeqsUpTo(Bytes, MaxBodyLen)

\* What fetch rejects with when no response is received.
Exceptions ==
    { [class |-> "FetchError", text |-> "ECONNREFUSED"],
      [class |-> "AbortError", text |-> "The user aborted a request."] }

\* ReadTreeOptions.filter: absent, or a predicate of the caller.
Filters == {"undefined", "callerFilter"}

---------------------------------------------------------------------------
\* Values of a call.

NoResponse ==
    [settled |-> "none", status |-> 0, statusText |-> "",
     cause |-> [class |-> "", text |-> ""], body |-> <<>>]

Resolved(status) ==
    [settled |-> "resolved", status |-> status,
     statusText |-> StatusText(status),
     cause |-> [class |-> "", text |-> ""], body |-> <<>>]

Rejected(e) ==
    [settled |-> "rejected", status |-> 0, statusText |-> "",
     cause |-> e, body |-> <<>>]

\* Response.ok: the status is in the range 200-299.
Ok(status) == status >= 200 /\ status <= 299

\* An error message: its fixed text and the values interpolated into it,
\* by kind (the url argument, the derived URL, the status, the status text,
\* an exception).
Message(template, targets, builts, statuses, texts, causes) ==
    [template |-> template, targets |-> targets, builts |-> builts,
     statuses |-> statuses, texts |-> texts, causes |-> causes]

NoMessage == Message("", {}, {}, {}, {}, {})

NoHandle == [stream |-> "", filter |-> ""]

NoOutcome ==
    [kind |-> "none", class |-> "", message |-> NoMessage,
     bytes |-> <<>>, handle |-> NoHandle]

\* The promise rejects with an error of the class, carrying the message.
Throw(class, message) ==
    [kind |-> "error", class |-> class, message |-> message,
     bytes |-> <<>>, handle |-> NoHandle]

\* read's promise resolves with a Buffer.
ReturnBuffer(bytes) ==
    [kind |-> "result", class |-> "", message |-> NoMessage,
     bytes |-> bytes, handle |-> NoHandle]

\* readTree's promise resolves with the collaborator's handle.
ReturnHandle(handle) ==
    [kind |-> "result", class |-> "", message |-> NoMessage,
     bytes |-> <<>>, handle |-> handle]

---------------------------------------------------------------------------
\* Response.text() and Buffer.from(string): UTF-8 decoding and encoding.

\* A continuation byte, 0x80-0xBF.
IsContinuation(b) == b >= 128 /\ b <= 191

\* The lead byte of a two-byte sequence, 0xC2-0xDF.
IsLead2(b) == b >= 194 /\ b <= 223

RECURSIVE Utf8Decode(_)
\* The code points of a byte sequence: a byte that starts no well-formed
\* sequence decodes to U+FFFD (65533).  One- and two-byte sequences only:
\* Bytes holds no lead byte of a longer one.
Utf8Decode(bytes) ==
    IF bytes = <<>> THEN <<>>
    ELSE IF bytes[1] < 128
        THEN <<bytes[1]>> \o Utf8Decode(Tail(bytes))
    ELSE IF IsLead2(bytes[1]) /\ Len(bytes) >= 2 /\ IsContinuation(bytes[2])
        THEN <<(bytes[1] - 192) * 64 + (bytes[2] - 128)>>
             \o Utf8Decode(Tail(Tail(bytes)))
    ELSE <<65533>> \o Utf8Decode(Tail(bytes))

RECURSIVE Utf8Encode(_)
\* The UTF-8 bytes of a sequence of code points below 0x10000.
Utf8Encode(text) ==
    IF text = <<>> THEN <<>>
    ELSE LET c == text[1] IN
         (IF c < 128 THEN <<c>>
          ELSE IF c < 2048 THEN <<192 + (c \div 64), 128 + (c % 64)>>
          ELSE <<224 + (c \div 4096), 128 + ((c \div 64) % 64), 128 + (c % 64)>>)
         \o Utf8Encode(Tail(text))

\* Buffer.from(await response.text()) of a response with the given body.
BufferFromText(body) == Utf8Encode(Utf8Decode(body))

---------------------------------------------------------------------------
\* URLSearchParams and encodeURIComponent on the characters of the model.

\* Percent-decoding of one raw character of a query value.
DecodeChar(c) ==
    CASE c = "%26" -> "&"
      [] c = "%2F" -> "/"
      [] OTHER -> c

\* The decoded value of a raw query value.
DecodeValue(raw) == [i \in 1..Len(raw) |-> DecodeChar(raw[i])]

\* url.searchParams.get(name): null when the parameter is absent, else its
\* decoded value.
SearchParamsGet(param) ==
    [defined |-> param.present, val |-> DecodeValue(param.raw)]

\* encodeURIComponent of one character: "/" and "&" are escaped.
EncodeChar(c) ==
    CASE c = "/" -> "%2F"
      [] c = "&" -> "%26"
      [] OTHER -> c

EncodeURIComponent(text) == [i \in 1..Len(text) |-> EncodeChar(text[i])]

\* String.prototype.substr(2): the string without its first two characters.
Substr2(text) == SubSeq(text, 3, Len(text))

\* The element a destructuring binds at position i of an array.
At(array, i) == IF i <= Len(array) THEN array[i] ELSE Undefined

\* How Array.prototype.join renders an element: undefined as "".
Rendered(element) == IF element = Undefined THEN "" ELSE element

---------------------------------------------------------------------------
\* buildRawUrl

\* The error buildRawUrl throws from its catch block.
IncorrectUrl(target, e) ==
    [ok |-> FALSE, url |-> NoUrl,
     message |-> Message("Incorrect url: ", {target}, {}, {}, {}, {e})]

\* The ref read from the version parameter: undefined when the parameter is
\* absent, else its value without the first two characters.
RefOf(target) ==
    LET version == SearchParamsGet(target.version)
    IN  [defined |-> version.defined, val |-> Substr2(version.val)]

\* The path read from the path parameter: '' when absent.
PathOf(target) ==
    LET path == SearchParamsGet(target.path)
    IN  IF path.defined THEN path.val ELSE <<>>

\* The condition under which buildRawUrl throws 'Wrong Azure Devops URL or
\* Invalid file path'.
WrongUrl(target) ==
    LET parts == target.split
        ref == RefOf(target)
    IN  \/ target.host # AZURE_HOST
        \/ At(parts, 1) # ""
        \/ At(parts, 2) = ""
        \/ At(parts, 3) = ""
        \/ At(parts, 4) # "_git"
        \/ At(parts, 5) = ""
        \/ PathOf(target) = <<>>
        \/ (ref.defined /\ ref.val = <<>>)

\* The query string buildRawUrl assigns: path, and version when ref is
\* truthy, each written as it was decoded.
RawSearch(target) ==
    LET ref == RefOf(target)
        pathParam == <<"path", "=">> \o PathOf(target)
        queryParams ==
            IF ref.defined /\ ref.val # <<>>
            THEN <<pathParam, <<"version", "=">> \o ref.val>>
            ELSE <<pathParam>>
    IN  Join(queryParams, <<"&">>)

BuildRawUrl(target) ==
    IF target = NotAUrl
    THEN IncorrectUrl(target, [class |-> "TypeError", text |-> "Invalid URL"])
    ELSE IF WrongUrl(target)
    THEN IncorrectUrl(target,
             [class |-> "Error",
              text |-> "Wrong Azure Devops URL or Invalid file path"])
    ELSE LET parts == target.split IN
         [ok |-> TRUE,
          url |-> [protocol |-> "https",
                   host |-> target.host,
                   split |-> <<Rendered(At(parts, 1)), Rendered(At(parts, 2)),
                               Rendered(At(parts, 3)), "_apis", "git",
                               "repositories", Rendered(At(parts, 5)),
                               "items">>,
                   search |-> RawSearch(target)],
          message |-> NoMessage]

---------------------------------------------------------------------------
\* getRequestOptions

\* Buffer.from(text, 'utf8').toString('base64'), kept symbolic.
Base64(text) == "base64(" \o text \o ")"

\* The headers of a request: the additional ones, and Authorization when
\* the reader has a token.
GetRequestOptions(options, additionalHeaders) ==
    IF options.token # ""
    THEN additionalHeaders
         \cup {<<"Authorization", "Basic " \o Base64(":" \o options.token)>>}
    ELSE additionalHeaders

---------------------------------------------------------------------------
\* getDownloadUrl

\* parseGitUri(url), the git-url-parse package, on a URL of the repository
\* grammar: the fields getDownloadUrl reads.
ParseGitUri(source) ==
    LET path == SearchParamsGet(source.path)
    IN  [name |-> source.split[5],
         owner |-> source.split[3],
         organization |-> source.split[2],
         protocol |-> source.protocol,
         resource |-> source.host,
         filepath |-> IF path.defined THEN path.val ELSE <<>>]

\* A scopePath that is not URL-encoded.
ScopePathRaw(filepath) ==
    IF filepath # <<>>
    THEN <<"&", "scopePath", "=">> \o filepath
    ELSE <<>>

\* The scopePath suffix of the download URL.
ScopePath(filepath) ==
    IF filepath # <<>>
    THEN <<"&", "scopePath", "=">> \o EncodeURIComponent(filepath)
    ELSE <<>>

GetDownloadUrl(source) ==
    LET parsed == ParseGitUri(source)
    IN  [protocol |-> parsed.protocol,
         host |-> parsed.resource,
         split |-> <<"", parsed.organization, parsed.owner, "_apis", "git",
                     "repositories", parsed.name, "items">>,
         search |-> <<"recursionLevel", "=", "full", "&",
                      "download", "=", "true", "&",
                      "api-version", "=", "6.0">>
                    \o ScopePath(parsed.filepath)]

---------------------------------------------------------------------------
\* The factory, the constructor and the predicate.

\* Whether the constructor accepts the options (it throws otherwise).
ConstructorAccepts(options) == options.host = AZURE_HOST

\* A predicate that compares the host name and ignores the port.
PredicateHostname(options, probed) == probed.hostname = options.host

\* predicate(url) of the pair made for options.
Predicate(options, probed) == probed.host = options.host

\* The pair the factory makes for one configuration entry: the reader
\* holds the options, and the predicate closes over them.
MakePair(options) == [reader |-> options, predicate |-> options]

NoProbe ==
    [asked |-> FALSE, pair |-> 0,
     url |-> [host |-> "", hostname |-> ""], result |-> FALSE]

\* AzureUrlReader.factory: one pair per entry, unless a constructor throws.
Factory ==
    /\ factoryState = "idle"
    /\ IF \A i \in 1..Len(configs) : ConstructorAccepts(configs[i])
       THEN /\ pairs' = [i \in 1..Len(configs) |-> MakePair(configs[i])]
            /\ factoryState' = "returned"
       ELSE /\ pairs' = <<>>
            /\ factoryState' = "threw"
    /\ UNCHANGED <<configs, probe>>
    /\ UNCHANGED callVars

\* The framework evaluates the predicate of pair i on a URL.
Probe(i, probed) ==
    /\ factoryState = "returned"
    /\ i \in 1..Len(pairs)
    /\ probe' = [asked |-> TRUE, pair |-> i, url |-> probed,
                 result |-> Predicate(pairs[i].predicate, probed)]
    /\ UNCHANGED <<configs, pairs, factoryState>>
    /\ UNCHANGED callVars

---------------------------------------------------------------------------
\* read

\* A message that leaves the derived URL out.
ReadMessageWithoutBuilt(target, built, status, statusText) ==
    Message(" could not be read as ", {target}, {}, {status},
            {statusText}, {})

\* The message of the error read throws for a failing response.
ReadMessage(target, built, status, statusText) ==
    Message(" could not be read as ", {target}, {built}, {status},
            {statusText}, {})

\* fetch(url, options): one more request on the wire.
IssueGet(issued, request) == Append(issued, request)

\* read up to its first await: buildRawUrl, then the fetch is issued.
ReadBuild ==
    /\ pc = "called"
    /\ op = "read"
    /\ LET built == BuildRawUrl(url) IN
       IF built.ok
       THEN /\ builtUrl' = built.url
            /\ requests' = IssueGet(requests,
                               [url |-> built.url,
                                headers |-> GetRequestOptions(reader, {})])
            /\ pc' = "awaiting"
            /\ UNCHANGED <<outcome, delivered>>
       ELSE /\ outcome' = Throw("Error", built.message)
            /\ delivered' = delivered + 1
            /\ pc' = "done"
            /\ UNCHANGED <<builtUrl, requests>>
    /\ UNCHANGED <<reader, op, url, treeOptions, response>>
    /\ UNCHANGED factoryVars

\* A catch block that tries the request once more.
ReadFetchRejectsAndRetries(e) ==
    /\ pc = "awaiting"
    /\ op = "read"
    /\ Len(requests) < 3
    /\ requests' = IssueGet(requests, requests[1])
    /\ UNCHANGED <<reader, op, url, treeOptions, pc, builtUrl, response,
                   outcome, delivered>>
    /\ UNCHANGED factoryVars

\* The fetch rejects: the catch block wraps the exception.
ReadFetchRejects(e) ==
    /\ pc = "awaiting"
    /\ op = "read"
    /\ response' = Rejected(e)
    /\ outcome' = Throw("Error",
                        Message("Unable to read ", {url}, {}, {}, {}, {e}))
    /\ delivered' = delivered + 1
    /\ pc' = "done"
    /\ UNCHANGED <<reader, op, url, treeOptions, builtUrl, requests>>
    /\ UNCHANGED factoryVars

\* The fetch resolves with a response of the given status.
ReadFetchResolves(status) ==
    /\ pc = "awaiting"
    /\ op = "read"
    /\ response' = Resolved(status)
    /\ IF Ok(status) /\ status # 203
       THEN /\ pc' = "body"
            /\ UNCHANGED <<outcome, delivered>>
       ELSE /\ outcome' =
                   Throw(IF status = 404 THEN "NotFoundError" ELSE "Error",
                         ReadMessage(url, builtUrl, status,
                                     StatusText(status)))
            /\ delivered' = delivered + 1
            /\ pc' = "done"
    /\ UNCHANGED <<reader, op, url, treeOptions, builtUrl, requests>>
    /\ UNCHANGED factoryVars

\* response.text() resolves: the server sent the given body.
ReadBody(body) ==
    /\ pc = "body"
    /\ op = "read"
    /\ response' = [response EXCEPT !.body = body]
    /\ outcome' = ReturnBuffer(BufferFromText(body))
    /\ delivered' = delivered + 1
    /\ pc' = "done"
    /\ UNCHANGED <<reader, op, url, treeOptions, builtUrl, requests>>
    /\ UNCHANGED factoryVars

---------------------------------------------------------------------------
\* readTree

\* treeResponseFactory.fromZipArchive: the handle of the collaborator.
FromZipArchive(stream, filter) == [stream |-> stream, filter |-> filter]

\* The message of the error readTree throws for a failing response.
TreeMessage(target, status, statusText) ==
    Message("Failed to read tree from ", {target}, {}, {status},
            {statusText}, {})

\* readTree up to its await: getDownloadUrl, then the fetch is issued.
TreeRequest ==
    /\ pc = "called"
    /\ op = "readTree"
    /\ builtUrl' = GetDownloadUrl(url)
    /\ requests' =
           IssueGet(requests,
               [url |-> GetDownloadUrl(url),
                headers |-> GetRequestOptions(reader,
                                {<<"Accept", "application/zip">>})])
    /\ pc' = "awaiting"
    /\ UNCHANGED <<reader, op, url, treeOptions, response, outcome, delivered>>
    /\ UNCHANGED factoryVars

\* The fetch rejects: nothing catches the exception.
TreeFetchRejects(e) ==
    /\ pc = "awaiting"
    /\ op = "readTree"
    /\ response' = Rejected(e)
    /\ outcome' = Throw(e.class, Message(e.text, {}, {}, {}, {}, {}))
    /\ delivered' = delivered + 1
    /\ pc' = "done"
    /\ UNCHANGED <<reader, op, url, treeOptions, builtUrl, requests>>
    /\ UNCHANGED factoryVars

\* The fetch resolves with a response of the given status.
TreeFetchResolves(status) ==
    /\ pc = "awaiting"
    /\ op = "readTree"
    /\ response' = Resolved(status)
    /\ outcome' =
           IF ~Ok(status)
           THEN Throw(IF status = 404 THEN "NotFoundError" ELSE "Error",
                      TreeMessage(url, status, StatusText(status)))
           ELSE ReturnHandle(FromZipArchive("response.body", treeOptions))
    /\ delivered' = delivered + 1
    /\ pc' = "done"
    /\ UNCHANGED <<reader, op, url, treeOptions, builtUrl, requests>>
    /\ UNCHANGED factoryVars

---------------------------------------------------------------------------
\* Specifications.

NoReader == [host |-> "", token |-> ""]

\* The factory is about to run on a list of configuration entries.
InitFactory ==
    /\ configs \in SeqsUpTo(ConfigEntries, MaxConfigs)
    /\ pairs = <<>>
    /\ factoryState = "idle"
    /\ probe = NoProbe
    /\ reader = NoReader
    /\ op = "none"
    /\ url = NotAUrl
    /\ treeOptions = "undefined"
    /\ pc = "idle"
    /\ builtUrl = NoUrl
    /\ requests = <<>>
    /\ response = NoResponse
    /\ outcome = NoOutcome
    /\ delivered = 0

NextFactory ==
    \/ Factory
    \/ \E i \in 1..MaxConfigs, probed \in ProbeUrls : Probe(i, probed)

SpecFactory == InitFactory /\ [][NextFactory]_vars

\* The factory has made a reader for one entry, and read or readTree has
\* just been called on it.
Init ==
    /\ \E options \in {o \in ConfigEntries : ConstructorAccepts(o)} :
          /\ configs = <<options>>
          /\ pairs = <<MakePair(options)>>
          /\ reader = options
    /\ factoryState = "returned"
    /\ probe = NoProbe
    /\ op \in {"read", "readTree"}
    /\ url \in IF op = "read" THEN ReadUrls ELSE TreeUrls
    /\ treeOptions \in IF op = "read" THEN {"undefined"} ELSE Filters
    /\ pc = "called"
    /\ builtUrl = NoUrl
    /\ requests = <<>>
    /\ response = NoResponse
    /\ outcome = NoOutcome
    /\ delivered = 0

Next ==
    \/ ReadBuild
    \/ \E e \in Exceptions : ReadFetchRejects(e)
    \/ \E status \in Statuses : ReadFetchResolves(status)
    \/ \E body \in Bodies : ReadBody(body)
    \/ TreeRequest
    \/ \E e \in Exceptions : TreeFetchRejects(e)
    \/ \E status \in Statuses : TreeFetchResolves(status)

Spec == Init /\ [][Next]_vars

---------------------------------------------------------------------------
\* What the claims speak of.

\* The request the call issued.
Requested == requests[1].url

\* The call received a response.
Responded == pc = "done" /\ response.settled = "resolved"

\* A 2xx status.
Is2xx(status) == status \in 200..299

RECURSIVE SplitOn(_, _)
\* The pieces of a string between the occurrences of a separator.
SplitOn(text, sep) ==
    IF \A i \in 1..Len(text) : text[i] # sep THEN <<text>>
    ELSE LET at == CHOOSE i \in 1..Len(text) :
                       text[i] = sep /\ \A j \in 1..(i - 1) : text[j] # sep
         IN  <<SubSeq(text, 1, at - 1)>>
             \o SplitOn(SubSeq(text, at + 1, Len(text)), sep)

\* One name=value piece of a query string, the value percent-decoded.
QueryParam(piece) ==
    LET halves == SplitOn(piece, "=")
    IN  [name |-> halves[1],
         value |-> IF Len(halves) >= 2 THEN DecodeValue(halves[2]) ELSE <<>>]

\* The parameters a server reads from a query string, in order.
QueryParams(search) ==
    LET pieces == SplitOn(search, "&")
    IN  [i \in 1..Len(pieces) |-> QueryParam(pieces[i])]

\* The decoded path of a source URL; empty when there is none.
FilePath(source) == DecodeValue(source.path.raw)

\* The decoded version of a source URL.
Version(source) == DecodeValue(source.version.raw)

\* A source URL lacks one of organization, project, repository, path and
\* ref, or its third segment is not _git.
Incomplete(source) ==
    \/ Len(source.split) < 5
    \/ source.split[2] = ""
    \/ source.split[3] = ""
    \/ source.split[4] # "_git"
    \/ source.split[5] = ""
    \/ ~source.path.present
    \/ FilePath(source) = <<>>
    \/ ~source.version.present
    \/ Len(Version(source)) <= 2

\* https://dev.azure.com/{org}/{project}/_git/{repo}?path={path}&version=GB{ref}
\* with every part non-empty.
WellFormed(source) ==
    /\ source.protocol = "https"
    /\ source.host = "dev.azure.com"
    /\ Len(source.split) = 5
    /\ ~Incomplete(source)
    /\ SubSeq(Version(source), 1, 2) = <<"G", "B">>

\* The path of the API URL of a repository.
ItemsPath(org, project, repo) ==
    <<"", org, project, "_apis", "git", "repositories", repo, "items">>

\* An error thrown by the URL translation.
TranslationError ==
    /\ outcome.kind = "error"
    /\ outcome.class = "Error"
    /\ outcome.message.template = "Incorrect url: "

\* (C1) read, once a response with status s has arrived, returns the body's
\* bytes unchanged iff s is a 2xx status other than 203, fails with a
\* not-found error iff s = 404, and with a generic error otherwise.
C1_ReadStatusToOutcome ==
    (op = "read" /\ Responded) =>
        LET s == response.status IN
        /\ (outcome.kind = "result" /\ outcome.bytes = response.body)
               <=> (Is2xx(s) /\ s # 203)
        /\ (outcome.kind = "error" /\ outcome.class = "NotFoundError")
               <=> (s = 404)
        /\ (outcome.kind = "error" /\ outcome.class = "Error")
               <=> (~(Is2xx(s) /\ s # 203) /\ s # 404)

\* (C2) read of a source URL that lacks organization, project, repository,
\* path or ref, or whose third segment is not _git, issues no request and
\* fails with a URL-translation error.
C2_IncompleteUrlIsRejected ==
    (op = "read" /\ (url = NotAUrl \/ Incomplete(url))) =>
        /\ requests = <<>>
        /\ pc = "done" => TranslationError

\* (C3) for a well-formed single-file URL the URL read requests is
\* https://dev.azure.com/{org}/{project}/_apis/git/repositories/{repo}/items
\* with exactly the parameters path={path} and version={ref}.
C3_RequestedUrlIsTheRewrite ==
    (op = "read" /\ WellFormed(url) /\ requests # <<>>) =>
        /\ Requested.protocol = "https"
        /\ Requested.host = "dev.azure.com"
        /\ Requested.split = ItemsPath(url.split[2], url.split[3], url.split[5])
        /\ QueryParams(Requested.search) =
               << [name |-> <<"path">>, value |-> FilePath(url)],
                  [name |-> <<"version">>,
                   value |-> SubSeq(Version(url), 3, Len(Version(url)))] >>

\* (C4) readTree maps a response as read does: 404 is a not-found error,
\* any other non-2xx status and 203 a generic error, and only the remaining
\* statuses hand the body stream and the filter to the collaborator.
C4_TreeStatusToOutcomeAsRead ==
    (op = "readTree" /\ Responded) =>
        LET s == response.status IN
        /\ s = 404 => (outcome.kind = "error" /\ outcome.class = "NotFoundError")
        /\ (s # 404 /\ (~Is2xx(s) \/ s = 203)) =>
               (outcome.kind = "error" /\ outcome.class = "Error")
        /\ (Is2xx(s) /\ s # 203) =>
               /\ outcome.kind = "result"
               /\ outcome.handle = [stream |-> "response.body",
                                    filter |-> treeOptions]

\* The query string of every download URL.
DownloadQuery ==
    <<"recursionLevel", "=", "full", "&", "download", "=", "true", "&",
      "api-version", "=", "6.0">>

\* The value is a URL-encoding of the text: it decodes to the text and holds
\* no reserved character.
UrlEncodes(value, text) ==
    /\ DecodeValue(value) = text
    /\ \A i \in 1..Len(value) : value[i] \notin {"/", "&", "="}

NamesUrlAndStatus ==
    /\ url \in outcome.message.targets
    /\ response.status \in outcome.message.statuses
    /\ response.statusText \in outcome.message.texts

C7_TransportFailureIsWrapped ==
    (pc = "done" /\ response.settled = "rejected") =>
        /\ outcome.kind = "error"
        /\ outcome.class = "Error"
        /\ response.cause \in outcome.message.causes
        /\ url \in outcome.message.targets

\* (C8) a call issues at most one GET: exactly one when the URL translation
\* succeeds and none when it fails; no request follows a response or a
\* transport failure; and the call ends with exactly one outcome.
C8_OneRequestOneOutcome ==
    /\ Len(requests) <= 1
    /\ response.settled # "none" => Len(requests) = 1
    /\ pc # "done" => (delivered = 0 /\ outcome.kind = "none")
    /\ pc = "done" =>
          /\ delivered = 1
          /\ outcome.kind \in {"result", "error"}
          /\ IF TranslationError
             THEN requests = <<>> /\ response.settled = "none"
             ELSE Len(requests) = 1 /\ response.settled # "none"

\* read has failed on a transport failure after its one request.
C8_Witness ==
    /\ op = "read"
    /\ pc = "done"
    /\ response.settled = "rejected"
    /\ Len(requests) = 1
    /\ delivered = 1

\* (C9, as claimed) for every list of entries the factory returns one pair
\* per entry, whose predicate holds of a URL iff the URL's host equals the
\* entry's host.
C9_OnePairPerEntry ==
    factoryState # "idle" =>
        /\ Len(pairs) = Len(configs)
        /\ \A i \in 1..Len(pairs) : pairs[i].reader = configs[i]
        /\ probe.asked =>
               (probe.result <=> probe.url.host = configs[probe.pair].host)

\* (C9, amended) for a list whose entries all name dev.azure.com the
\* factory returns one pair per entry, whose predicate holds of a URL iff
\* the URL's host equals the entry's host; for a list with an entry of
\* another host it throws and returns no pair.
C9_OnePairPerSupportedEntry ==
    /\ factoryState = "returned" =>
          /\ \A i \in 1..Len(configs) : configs[i].host = "dev.azure.com"
          /\ Len(pairs) = Len(configs)
          /\ \A i \in 1..Len(pairs) : pairs[i].reader = configs[i]
    /\ factoryState = "threw" =>
          /\ \E i \in 1..Len(configs) : configs[i].host # "dev.azure.com"
          /\ pairs = <<>>
    /\ probe.asked =>
          (probe.result <=> probe.url.host = configs[probe.pair].host)

\* The second of two pairs was asked about a URL of its host.
C9_Witness ==
    /\ factoryState = "returned"
    /\ Len(pairs) = 2
    /\ probe.asked
    /\ probe.pair = 2
    /\ probe.result

\* (C10) a request that carries the Authorization header goes to the
\* reader's configured host only.
C10_TokenGoesToConfiguredHostOnly ==
    \A i \in 1..Len(requests) :
        (\E header \in requests[i].headers : header[1] = "Authorization")
            => requests[i].url.host = reader.host

============================================================================
